---- MODULE Spec2Model ----
(***************************************************************************)
(* A model of icarogw/priors.py: the bounded 1D distribution base class,   *)
(* the conditional 2D distribution, the smoothed distribution and its      *)
(* window function, the analytic power law, the spline-based flow and the  *)
(* binned distributions.                                                   *)
(*                                                                         *)
(* Numbers.  A floating-point number is a record [k, n, d]: k = "fin" is   *)
(* the rational n/d in lowest terms (d > 0), k = "inf" is +infinity        *)
(* (n = 1) or -infinity (n = -1), k = "nan" is not-a-number.  Arithmetic   *)
(* follows IEEE-754 for infinities and not-a-number and is exact on the    *)
(* finite values.  A log-domain number (a log_pdf, a log_cdf) is a record  *)
(* [ln |-> v] standing for the logarithm of the float v >= 0: -infinity    *)
(* is [ln |-> 0], 0 is [ln |-> 1]; adding logarithms multiplies the        *)
(* arguments, subtracting them divides.                                    *)
(***************************************************************************)
EXTENDS Integers, Sequences, FiniteSets, TLC

VARIABLES
    heap,     \* the objects, by identity: heap[id] is the attributes of object id
    call,     \* the evaluation call in progress or returned: the method, its
              \* input arrays and what it returned
    sfac,     \* a call of the window function _S_factor
    thr,      \* the threads that evaluate on a shared instance: each one's
              \* method, input array, position in the method and return value
    built     \* the heap as the constructors left it

vars == <<heap, call, sfac, thr, built>>

---------------------------------------------------------------------------
(* Bounds of the model *)

\* length of the input arrays
ArrLen == 2
\* the support bounds minval, maxval are integers in 1 .. MaxX-1, the
\* queries integers in 0 .. MaxX
MaxX == 3
\* the floating-point range: a finite result above 2^FloatMaxExp in
\* magnitude overflows to an infinity, xp.exp overflows above FloatMaxExp
FloatMaxExp == 4
\* the number of points of the grid on which sample tabulates the cdf
\* (10000 in the source)
SampleGrid == 3
\* the uniform draws of sample are the multiples of 1/UDen in [0, 1)
UDen == 4
\* the number of points on which SplineWrapper tabulates the spline for its
\* inverse (10_000 in the source)
InvGrid == 5
\* the bins of a binned distribution: at most MaxBins, with integer weights
\* in 0 .. MaxWeight
MaxBins == 2
\* the largest number of bins per axis of a 2D binned distribution
MaxGrid == 3
\* the largest number of slope parameters of a spline built on its own
MaxKnots == 4
\* the largest number of bins per axis for which the flat index is computed
MaxFlat == 8
\* the number of points of the grids on which SmoothedProb integrates and
\* tabulates (1000 in the source)
SmoothGrid == 3
MaxWeight == 2

---------------------------------------------------------------------------
(* Floating-point numbers *)

Abs(i) == IF i < 0 THEN -i ELSE i

RECURSIVE GCD(_, _)
GCD(a, b) == IF b = 0 THEN a ELSE GCD(b, a % b)

Fin(n, d) ==
    LET s == IF d < 0 THEN -1 ELSE 1
        g == GCD(Abs(n), Abs(d))
    IN  [k |-> "fin", n |-> (s * n) \div g, d |-> (s * d) \div g]

I(i) == [k |-> "fin", n |-> i, d |-> 1]
PInf == [k |-> "inf", n |-> 1, d |-> 0]
NInf == [k |-> "inf", n |-> -1, d |-> 0]
NaN  == [k |-> "nan", n |-> 0, d |-> 0]
Zero == I(0)
One  == I(1)

IsNaN(a) == a.k = "nan"
IsFin(a) == a.k = "fin"
Sgn(a) == IF a.n > 0 THEN 1 ELSE IF a.n < 0 THEN -1 ELSE 0
SignedInf(s) == IF s > 0 THEN PInf ELSE NInf

FNeg(a) == [a EXCEPT !.n = -a.n]

FAdd(a, b) ==
    CASE IsNaN(a) \/ IsNaN(b) -> NaN
      [] IsFin(a) /\ IsFin(b) -> Fin(a.n * b.d + b.n * a.d, a.d * b.d)
      [] IsFin(a) -> b
      [] IsFin(b) -> a
      [] OTHER -> IF a.n = b.n THEN a ELSE NaN

FSub(a, b) == FAdd(a, FNeg(b))

FMul(a, b) ==
    CASE IsNaN(a) \/ IsNaN(b) -> NaN
      [] IsFin(a) /\ IsFin(b) -> Fin(a.n * b.n, a.d * b.d)
      [] Sgn(a) = 0 \/ Sgn(b) = 0 -> NaN
      [] OTHER -> SignedInf(Sgn(a) * Sgn(b))

FDiv(a, b) ==
    CASE IsNaN(a) \/ IsNaN(b) -> NaN
      [] IsFin(a) /\ IsFin(b) ->
            IF b.n # 0 THEN Fin(a.n * b.d, a.d * b.n)
            ELSE IF a.n = 0 THEN NaN ELSE SignedInf(Sgn(a))
      [] IsFin(a) -> Zero
      [] IsFin(b) -> SignedInf(Sgn(a) * (IF Sgn(b) < 0 THEN -1 ELSE 1))
      [] OTHER -> NaN

\* the comparisons are false as soon as one side is not-a-number
FLt(a, b) ==
    CASE IsNaN(a) \/ IsNaN(b) -> FALSE
      [] IsFin(a) /\ IsFin(b) -> a.n * b.d < b.n * a.d
      [] IsFin(a) -> b.n > 0
      [] IsFin(b) -> a.n < 0
      [] OTHER -> a.n < b.n

FGt(a, b) == FLt(b, a)
FEq(a, b) == ~IsNaN(a) /\ ~IsNaN(b) /\ a = b
FLe(a, b) == FLt(a, b) \/ FEq(a, b)
FGe(a, b) == FLe(b, a)

---------------------------------------------------------------------------
(* Log-domain numbers *)

\* xp.log: the logarithm of a negative number is not-a-number
Log(v) == [ln |-> IF IsNaN(v) \/ FLt(v, Zero) THEN NaN ELSE v]
\* xp.exp of a log-domain number
Exp(l) == l.ln

LNegInf == [ln |-> Zero]
LZero   == [ln |-> One]
LPosInf == [ln |-> PInf]
LNaN    == [ln |-> NaN]

LAdd(a, b) == [ln |-> FMul(a.ln, b.ln)]
LSub(a, b) == [ln |-> FDiv(a.ln, b.ln)]
LIsNaN(l) == IsNaN(l.ln)

---------------------------------------------------------------------------
(* The array backend on plain numbers, with a finite floating-point range *)

RECURSIVE Pow2(_)
Pow2(e) == IF e = 0 THEN 1 ELSE 2 * Pow2(e - 1)

FloatMax == Pow2(FloatMaxExp)

\* rounding of an exact result into the floating-point range
Sat(v) ==
    IF IsFin(v) /\ Abs(v.n) > FloatMax * v.d THEN SignedInf(Sgn(v)) ELSE v

\* floor of a finite number
Floor(v) == v.n \div v.d

\* xp.exp on a plain number: positive, non-decreasing, +infinity above the
\* overflow threshold and 0 below the underflow threshold; in between the
\* value is rounded down to a power of two
xp_exp(v) ==
    CASE IsNaN(v) -> NaN
      [] ~IsFin(v) -> IF v.n > 0 THEN PInf ELSE Zero
      [] FGt(v, I(FloatMaxExp)) -> PInf
      [] FLt(v, I(-FloatMaxExp)) -> Zero
      [] OTHER -> IF Floor(v) >= 0 THEN Fin(Pow2(Floor(v)), 1)
                  ELSE Fin(1, Pow2(-Floor(v)))

\* xp.nan_to_num: not-a-number becomes 0, an infinity the largest finite
\* number of its sign
nan_to_num(v) ==
    CASE IsNaN(v) -> Zero
      [] ~IsFin(v) -> I(Sgn(v) * FloatMax)
      [] OTHER -> v

\* xp.linspace(a, b, n), n >= 2
linspace(a, b, n) ==
    [i \in 1 .. n |-> FAdd(a, FDiv(FMul(I(i - 1), FSub(b, a)), I(n - 1)))]

SetMax(S) == CHOOSE m \in S : \A e \in S : e <= m

\* xp.interp(t, xs, fs) for one t: linear interpolation in the table
\* (xs, fs), xs non-decreasing, the edge values outside of it
interp(t, xs, fs) ==
    LET n == Len(xs)
        below == {j \in 1 .. n : FLe(xs[j], t)}
        j == SetMax(below)
    IN  CASE IsNaN(t) -> NaN
          [] below = {} -> fs[1]
          [] j = n -> fs[n]
          [] xs[j] = t -> fs[j]
          [] OTHER ->
                FAdd(FMul(FDiv(FSub(fs[j + 1], fs[j]), FSub(xs[j + 1], xs[j])),
                          FSub(t, xs[j])),
                     fs[j])

---------------------------------------------------------------------------
(* _S_factor: the window function *)

\* mutant of SetZeroAndOne: the assignment to_ret[select_zero] = 0. is missing
SetZeroAndOne_no_zero(mass, mmin, delta_m, to_ret) ==
    [i \in DOMAIN mass |->
        IF FGe(mass[i], Sat(FAdd(delta_m, mmin))) THEN One ELSE to_ret[i]]

\* to_ret[select_zero] = 0. ; to_ret[select_one] = 1.   (in this order)
SetZeroAndOne(mass, mmin, delta_m, to_ret) ==
    LET select_one(i) == FGe(mass[i], Sat(FAdd(delta_m, mmin)))
        select_zero(i) == FLe(mass[i], mmin)
        z == [i \in DOMAIN mass |-> IF select_zero(i) THEN Zero ELSE to_ret[i]]
    IN  [i \in DOMAIN mass |-> IF select_one(i) THEN One ELSE z[i]]

_S_factor(mass, mmin, delta_m) ==
    IF FEq(delta_m, Zero) THEN [i \in DOMAIN mass |-> One]
    ELSE
    LET mprime == [i \in DOMAIN mass |-> Sat(FSub(mass[i], mmin))]
        select_window(i) ==
            FGt(mass[i], mmin) /\ FLt(mass[i], Sat(FAdd(delta_m, mmin)))
        f(i) == Sat(FAdd(Sat(FDiv(delta_m, mprime[i])),
                         Sat(FDiv(delta_m, Sat(FSub(mprime[i], delta_m))))))
        effe_prime == [i \in DOMAIN mass |->
                          IF select_window(i) THEN xp_exp(nan_to_num(f(i)))
                          ELSE One]
        to_ret == [i \in DOMAIN mass |->
                      Sat(FDiv(One, Sat(FAdd(effe_prime[i], One))))]
    IN  SetZeroAndOne(mass, mmin, delta_m, to_ret)

---------------------------------------------------------------------------
(* Integer powers *)

RECURSIVE IPow(_, _)
IPow(b, e) == IF e = 0 THEN 1 ELSE b * IPow(b, e - 1)

\* xp.power(v, e) for an integer exponent e
FPow(v, e) ==
    CASE e = 0 -> One
      [] IsNaN(v) -> NaN
      [] IsFin(v) /\ e > 0 -> Fin(IPow(v.n, e), IPow(v.d, e))
      [] IsFin(v) /\ v.n = 0 -> PInf
      [] IsFin(v) -> Fin(IPow(v.d, -e), IPow(v.n, -e))
      [] e < 0 -> Zero
      [] OTHER -> IF v.n < 0 /\ e % 2 = 1 THEN NInf ELSE PInf

\* alpha * l for an integer alpha and a log-domain number l
LScale(alpha, l) ==
    CASE LIsNaN(l) -> LNaN
      [] alpha = 0 -> IF l.ln = Zero \/ l.ln = PInf THEN LNaN ELSE LZero
      [] OTHER -> [ln |-> FPow(l.ln, alpha)]

---------------------------------------------------------------------------
(* basic_1dimpdf *)

\* mutant of _check_bound_pdf: the test x > self.maxval is missing
_check_bound_pdf_no_upper(self, x, y) ==
    [i \in DOMAIN y |-> IF FLt(x[i], self.minval) THEN LNegInf ELSE y[i]]

\* y[(x<self.minval) | (x>self.maxval)] = -xp.inf
_check_bound_pdf(self, x, y) ==
    [i \in DOMAIN y |->
        IF FLt(x[i], self.minval) \/ FGt(x[i], self.maxval)
        THEN LNegInf ELSE y[i]]

\* mutant of _check_bound_cdf: the two values are assigned the other way round
_check_bound_cdf_swapped(self, x, y) ==
    [i \in DOMAIN y |->
        IF FGt(x[i], self.maxval) THEN LNegInf
        ELSE IF FLt(x[i], self.minval) THEN LZero ELSE y[i]]

\* y[x<self.minval], y[x>self.maxval] = -xp.inf, 0.   (two assignments, in
\* this order)
_check_bound_cdf(self, x, y) ==
    LET y1 == [i \in DOMAIN y |->
                  IF FLt(x[i], self.minval) THEN LNegInf ELSE y[i]]
    IN  [i \in DOMAIN y |-> IF FGt(x[i], self.maxval) THEN LZero ELSE y1[i]]

\* A Stub is a subclass of basic_1dimpdf whose unclamped _log_pdf and
\* _log_cdf return the stored arrays raw_pdf and raw_cdf, whatever they hold.
Stub(minval, maxval, raw_pdf, raw_cdf) ==
    [kind |-> "Stub", minval |-> I(minval), maxval |-> I(maxval),
     raw_pdf |-> raw_pdf, raw_cdf |-> raw_cdf]

---------------------------------------------------------------------------
(* PowerLaw, for the exponents alpha # -1 *)

PL_normfact(minpl, maxpl, alpha) ==
    FDiv(FSub(FPow(maxpl, alpha + 1), FPow(minpl, alpha + 1)), I(alpha + 1))

\* PowerLaw(minpl, maxpl, alpha) for any two numbers minpl and maxpl
PowerLawAt(minpl, maxpl, alpha) ==
    [kind |-> "PowerLaw", minval |-> minpl, maxval |-> maxpl,
     minpl |-> minpl, maxpl |-> maxpl, alpha |-> alpha,
     norm_fact |-> PL_normfact(minpl, maxpl, alpha)]

\* PowerLaw(minpl, maxpl, alpha) for integers minpl and maxpl
PowerLaw(minpl, maxpl, alpha) == PowerLawAt(I(minpl), I(maxpl), alpha)

\* toret = self.alpha*xp.log(x) - xp.log(self.norm_fact)
PowerLaw_log_pdf(self, x) ==
    [i \in DOMAIN x |->
        LSub(LScale(self.alpha, Log(x[i])), Log(self.norm_fact))]

PowerLaw_log_cdf(self, x) ==
    [i \in DOMAIN x |->
        Log(FDiv(FDiv(FSub(FPow(x[i], self.alpha + 1),
                           FPow(self.minpl, self.alpha + 1)),
                      I(self.alpha + 1)),
                 self.norm_fact))]

---------------------------------------------------------------------------
(* scipy.special.erf *)

\* erf(k / sqrt(2)) for k = 0 .. 5, to four decimals (erf is 1 in floating
\* point for a large enough argument)
ErfTable ==
    << Zero, Fin(6827, 10000), Fin(9545, 10000), Fin(9973, 10000),
       Fin(9999, 10000), One >>

\* erf(v / sqrt(2)): odd, non-decreasing, linear between the tabulated points
erf_sqrt2(v) ==
    CASE IsNaN(v) -> NaN
      [] ~IsFin(v) -> I(Sgn(v))
      [] OTHER ->
            LET a == Fin(Abs(v.n), v.d)
                e == interp(a, [k \in 1 .. Len(ErfTable) |-> I(k - 1)], ErfTable)
            IN  IF v.n < 0 THEN FNeg(e) ELSE e

---------------------------------------------------------------------------
(* SplineWrapper *)

SPLINE_OFFSET_SLOPE == Fin(1, 2)

RECURSIVE FSum(_)
FSum(q) == IF q = <<>> THEN Zero ELSE FAdd(Head(q), FSum(Tail(q)))

\* y_points[i] = y_points[i-1] + delta_x * dy_dx[i-1], from y_points[0] =
\* x_points[0]
RECURSIVE YPoint(_, _, _, _)
YPoint(x_points, delta_x, dy_dx, i) ==
    IF i = 1 THEN x_points[1]
    ELSE FAdd(YPoint(x_points, delta_x, dy_dx, i - 1),
              FMul(delta_x, dy_dx[i - 1]))

\* mutant of generate_spline_from_slope_list: the first y-point, not the
\* middle one, is mapped to zero
generate_spline_first_to_zero(slope_list, x_range_min, x_range_max) ==
    LET n_bins == Len(slope_list)
        x_points == linspace(x_range_min, x_range_max, n_bins)
        delta_x == FSub(x_points[2], x_points[1])
        dy0 == [i \in 1 .. n_bins |-> FAdd(slope_list[i], SPLINE_OFFSET_SLOPE)]
        mean == FDiv(FSum(dy0), I(n_bins))
        dy_dx == [i \in 1 .. n_bins |-> FDiv(dy0[i], mean)]
        y0 == [i \in 1 .. n_bins |-> YPoint(x_points, delta_x, dy_dx, i)]
    IN  [x |-> x_points,
         y |-> [i \in 1 .. n_bins |-> FSub(y0[i], y0[1])],
         dydx |-> dy_dx,
         delta_x |-> delta_x]

\* the CubicHermiteSpline through (x_points, y_points) with the tangents
\* dy_dx, as a record of its knots
generate_spline_from_slope_list(slope_list, x_range_min, x_range_max) ==
    LET n_bins == Len(slope_list)
        x_points == linspace(x_range_min, x_range_max, n_bins)
        delta_x == FSub(x_points[2], x_points[1])
        dy0 == [i \in 1 .. n_bins |-> FAdd(slope_list[i], SPLINE_OFFSET_SLOPE)]
        mean == FDiv(FSum(dy0), I(n_bins))
        dy_dx == [i \in 1 .. n_bins |-> FDiv(dy0[i], mean)]
        y0 == [i \in 1 .. n_bins |-> YPoint(x_points, delta_x, dy_dx, i)]
        mid == ((n_bins - 1) \div 2) + 1
    IN  [x |-> x_points,
         y |-> [i \in 1 .. n_bins |-> FSub(y0[i], y0[mid])],
         dydx |-> dy_dx,
         delta_x |-> delta_x]

\* the spline at v: the cubic Hermite polynomial of the interval of v;
\* not-a-number outside of the knots (extrapolate = 0)
spline_eval(sp, v) ==
    LET n == Len(sp.x)
        ks == {k \in 1 .. n - 1 : FLe(sp.x[k], v) /\ FLe(v, sp.x[k + 1])}
    IN  IF ks = {} THEN NaN
        ELSE
        LET k == SetMax(ks)
            h == FSub(sp.x[k + 1], sp.x[k])
            t == FDiv(FSub(v, sp.x[k]), h)
            t2 == FMul(t, t)
            t3 == FMul(t2, t)
            h00 == FAdd(FSub(FMul(I(2), t3), FMul(I(3), t2)), One)
            h10 == FAdd(FSub(t3, FMul(I(2), t2)), t)
            h01 == FSub(FMul(I(3), t2), FMul(I(2), t3))
            h11 == FSub(t3, t2)
        IN  FAdd(FAdd(FMul(h00, sp.y[k]), FMul(FMul(h10, h), sp.dydx[k])),
                 FAdd(FMul(h01, sp.y[k + 1]), FMul(FMul(h11, h), sp.dydx[k + 1])))

\* get_inverse_from_spline: the table (y_vals, x_vals) of the spline
get_inverse_from_spline(sp, x_range_min, x_range_max) ==
    LET x_vals == linspace(x_range_min, x_range_max, InvGrid)
    IN  [x_vals |-> x_vals,
         y_vals |-> [i \in 1 .. InvGrid |-> spline_eval(sp, x_vals[i])]]

\* scipy.interpolate.interp1d(y_vals, x_vals, bounds_error = False,
\* fill_value = 0) at y: the table is sorted by y_vals, the value is linear
\* between the two neighbours of y and 0 outside of the table
spline_inv(inv, y) ==
    LET n == Len(inv.y_vals)
        le == {i \in 1 .. n : FLe(inv.y_vals[i], y)}
        gt == {i \in 1 .. n : FGt(inv.y_vals[i], y)}
    IN  CASE IsNaN(y) -> NaN
          [] le = {} -> Zero
          [] gt = {} ->
                IF \E i \in le : inv.y_vals[i] = y
                THEN inv.x_vals[CHOOSE i \in le : inv.y_vals[i] = y]
                ELSE Zero
          [] OTHER ->
                LET lo == CHOOSE i \in le : \A j \in le : FLe(inv.y_vals[j], inv.y_vals[i])
                    hi == CHOOSE i \in gt : \A j \in gt : FLe(inv.y_vals[i], inv.y_vals[j])
                IN  FAdd(FMul(FDiv(FSub(inv.x_vals[hi], inv.x_vals[lo]),
                                   FSub(inv.y_vals[hi], inv.y_vals[lo])),
                              FSub(y, inv.y_vals[lo])),
                         inv.x_vals[lo])

SplineWrapper(slope_list_in, x_range) ==
    LET sp == generate_spline_from_slope_list(slope_list_in, I(-x_range), I(x_range))
    IN  [kind |-> "SplineWrapper",
         slope_list |-> slope_list_in,
         x_range_min |-> I(-x_range), x_range_max |-> I(x_range),
         n_bins |-> Len(slope_list_in),
         delta_x |-> sp.delta_x,
         spline |-> sp,
         y_range_min |-> spline_eval(sp, I(-x_range)),
         y_range_max |-> spline_eval(sp, I(x_range)),
         spline_inv |-> get_inverse_from_spline(sp, I(-x_range), I(x_range))]

---------------------------------------------------------------------------
(* NormalizingFlow1d *)

\* the mapped value of linear_function_with_jacobian
linear_function_with_jacobian(z, target_min, target_max, z_minimum, z_maximum) ==
    LET normalized_z == FDiv(FSub(z, z_minimum), FSub(z_maximum, z_minimum))
    IN  FAdd(target_min, FMul(normalized_z, FSub(target_max, target_min)))

NormalizingFlow1d(dist_min, dist_max, slope_list, x_range) ==
    [kind |-> "NormalizingFlow1d", minval |-> I(dist_min), maxval |-> I(dist_max),
     dist_min |-> I(dist_min), dist_max |-> I(dist_max),
     slope_list |-> slope_list, x_range |-> I(x_range),
     norm |-> FDiv(One, erf_sqrt2(I(x_range))),
     spline_wrapper |-> SplineWrapper(slope_list, x_range)]

m_to_y(self, m) ==
    linear_function_with_jacobian(m, self.spline_wrapper.y_range_min,
        self.spline_wrapper.y_range_max, self.dist_min, self.dist_max)

\* cdf = 1/2 * (1 + erf(x_base / sqrt(2))) * self.norm, then the two np.where
NormalizingFlow1d_cdf_of_base(self, x_base) ==
    LET cdf0 == FMul(FMul(Fin(1, 2), FAdd(One, erf_sqrt2(x_base))), self.norm)
        cdf1 == IF FLt(x_base, FNeg(self.x_range)) THEN Zero ELSE cdf0
    IN  IF FGt(x_base, self.x_range) THEN One ELSE cdf1

NormalizingFlow1d_log_cdf(self, m) ==
    [i \in DOMAIN m |->
        LET y == m_to_y(self, m[i])
            x_base == spline_inv(self.spline_wrapper.spline_inv, y)
        IN  Log(NormalizingFlow1d_cdf_of_base(self, x_base))]

---------------------------------------------------------------------------
(* piecewise_constant_distribution_normalized and BinModel1d *)

\* a function of np.piecewise's funclist: a constant, or the
\* linear_function(slope, offset_x, offset_y) lambda
Const(c) == [fn |-> "const", slope |-> Zero, offset_x |-> Zero, offset_y |-> c]
linear_function(slope, offset_x, offset_y) ==
    [fn |-> "linear", slope |-> slope, offset_x |-> offset_x, offset_y |-> offset_y]

Apply(f, v) ==
    IF f.fn = "const" THEN f.offset_y
    ELSE FAdd(FMul(f.slope, FSub(v, f.offset_x)), f.offset_y)

\* np.cumsum
RECURSIVE CumSum(_, _)
CumSum(q, i) == IF i = 0 THEN Zero ELSE FAdd(CumSum(q, i - 1), q[i])
cumsum(q) == [i \in 1 .. Len(q) |-> CumSum(q, i)]

\* np.piecewise accepts as many functions as conditions, or one more (the
\* default); anything else raises ValueError
piecewise_accepts(condlist, funclist) ==
    Len(funclist) \in {Len(condlist), Len(condlist) + 1}

\* np.piecewise(x, condlist, funclist): the output starts as zeros and each
\* condition in turn writes its function's values where it holds
piecewise(x, condlist, funclist) ==
    [e \in DOMAIN x |->
        LET ks == {k \in 1 .. Len(condlist) : condlist[k][e]}
        IN  IF ks # {} THEN Apply(funclist[SetMax(ks)], x[e])
            ELSE IF Len(funclist) = Len(condlist) + 1
                 THEN Apply(funclist[Len(funclist)], x[e])
                 ELSE Zero]

\* __init__; the attributes conditions, pdf_func, linear_functions and
\* cdf_func do not exist yet: attrs is the set of those that do
piecewise_constant_distribution_normalized(dist_min, dist_max, weights) ==
    LET n_bins == Len(weights)
        wwb == <<Zero>> \o [i \in 1 .. n_bins |-> I(weights[i])] \o <<Zero>>
        bins == linspace(I(dist_min), I(dist_max), n_bins + 1)
        delta_bin == FSub(bins[2], bins[1])
        norm == FDiv(FMul(FDiv(One, FSum(wwb)), One), delta_bin)
        wn == [i \in 1 .. n_bins + 2 |-> FMul(norm, wwb[i])]
    IN  [kind |-> "piecewise_constant_distribution_normalized",
         dist_min |-> I(dist_min), dist_max |-> I(dist_max),
         n_bins |-> n_bins,
         weights_with_boundaries |-> wwb,
         bins |-> bins,
         bins_with_boundaries |-> <<NInf>> \o bins \o <<PInf>>,
         delta_bin |-> delta_bin,
         norm |-> norm,
         weights_with_boundaries_normalized |-> wn,
         cumulated_normalized_weights |-> cumsum(wn),
         attrs |-> {},
         conditions |-> <<>>,
         linear_functions |-> <<>>]

get_conditions(self, x) ==
    [i \in 1 .. self.n_bins + 2 |->
        [e \in DOMAIN x |->
            /\ FLe(self.bins_with_boundaries[i], x[e])
            /\ FLt(x[e], self.bins_with_boundaries[i + 1])]]

\* mutant of make_linear_functions: offset_y is taken one entry further on
make_linear_functions_shifted(self) ==
    [i \in 1 .. self.n_bins |->
        linear_function(self.weights_with_boundaries_normalized[i + 1],
                        self.bins[i],
                        FMul(self.cumulated_normalized_weights[i + 1], self.delta_bin))]

\* the list comprehension of cdf: one linear_function per bin
make_linear_functions(self) ==
    [i \in 1 .. self.n_bins |->
        linear_function(self.weights_with_boundaries_normalized[i + 1],
                        self.bins[i],
                        FMul(self.cumulated_normalized_weights[i], self.delta_bin))]

\* the funclist of pdf: the normalized weights
weight_functions(self) ==
    [i \in 1 .. self.n_bins + 2 |->
        Const(self.weights_with_boundaries_normalized[i])]

\* the object after pdf(x) ran alone, and what it returned
binned_after_pdf(self, x) ==
    [self EXCEPT !.conditions = get_conditions(self, x),
                 !.attrs = @ \cup {"conditions", "pdf_func"}]

binned_pdf(self, x) ==
    piecewise(x, binned_after_pdf(self, x).conditions, weight_functions(self))

\* the object after cdf(x) ran alone, and what it returned
binned_after_cdf(self, x) ==
    [self EXCEPT !.conditions = get_conditions(self, x),
                 !.linear_functions =
                     <<Const(Zero)>> \o make_linear_functions(self) \o <<Const(One)>>,
                 !.attrs = @ \cup {"conditions", "linear_functions", "cdf_func"}]

binned_cdf(self, x) ==
    LET after == binned_after_cdf(self, x)
    IN  piecewise(x, after.conditions, after.linear_functions)

BinModel1d(dist_min, dist_max, bin_list) ==
    [kind |-> "BinModel1d", minval |-> I(dist_min), maxval |-> I(dist_max),
     dist_min |-> I(dist_min), dist_max |-> I(dist_max), bin_list |-> bin_list,
     distribution |->
         piecewise_constant_distribution_normalized(dist_min, dist_max, bin_list)]

BinModel1d_log_pdf(self, x) ==
    LET v == binned_pdf(self.distribution, x)
    IN  [i \in DOMAIN x |-> Log(v[i])]

BinModel1d_log_cdf(self, x) ==
    LET v == binned_cdf(self.distribution, x)
    IN  [i \in DOMAIN x |-> Log(v[i])]

---------------------------------------------------------------------------
(* The methods of basic_1dimpdf, dispatched on the subclass; an attribute  *)
(* that holds an object holds its identity, and h is the heap              *)

RECURSIVE log_pdf(_, _, _), log_cdf(_, _, _)

\* SmoothedProb._log_pdf:
\* self.origin_prob.log_pdf(x) + xp.log(window) - xp.log(self.norm)
SmoothedProb_log_pdf(h, self, x) ==
    LET window == _S_factor(x, self.bottom, self.bottom_smooth)
        o == log_pdf(h, h[self.origin_prob], x)
    IN  [i \in DOMAIN x |-> LSub(LAdd(o[i], Log(window[i])), Log(self.norm))]

\* SmoothedProb._log_cdf: 0 below bottom, the table inside the window, the
\* origin's cdf above it (the three assignments, in this order)
SmoothedProb_log_cdf(h, self, x) ==
    LET top == FAdd(self.bottom, self.bottom_smooth)
        n == Len(self.x_eval)
        mids == [i \in 1 .. n - 1 |->
                    FMul(FAdd(self.x_eval[i], self.x_eval[i + 1]), Fin(1, 2))]
        oc(v) == Exp(log_cdf(h, h[self.origin_prob], <<v>>)[1])
        t1(i) == IF FLt(x[i], self.bottom) THEN Zero ELSE One
        t2(i) == IF FGe(x[i], self.bottom) /\ FLe(x[i], top)
                 THEN interp(x[i], mids, self.cdf_numeric) ELSE t1(i)
        t3(i) == IF FGe(x[i], top)
                 THEN FDiv(FSub(FAdd(self.integral_now, oc(x[i])), oc(top)),
                           self.norm)
                 ELSE t2(i)
    IN  [i \in DOMAIN x |-> Log(t3(i))]

\* TruncatedGaussian._log_cdf
TruncatedGaussian_log_cdf(self, x) ==
    LET max_point(v) == FDiv(FSub(v, self.meang), self.sigmag)
        min_point == FDiv(FSub(self.ming, self.meang), self.sigmag)
    IN  [i \in DOMAIN x |->
            Log(FDiv(FSub(FMul(Fin(1, 2), erf_sqrt2(max_point(x[i]))),
                          FMul(Fin(1, 2), erf_sqrt2(min_point))),
                     self.norm_fact))]

\* mutant of PowerLawGaussian_log_cdf: the power law's cdf is not clamped
PowerLawGaussian_log_cdf_unclamped(h, self, x) ==
    LET pl == PowerLaw_log_cdf(self.PL, x)
        tg == log_cdf(h, self.TG, x)
    IN  [i \in DOMAIN x |->
            Log(FAdd(FMul(FSub(One, self.lambdag), Exp(pl[i])),
                     FMul(self.lambdag, Exp(tg[i]))))]

\* PowerLawGaussian._log_cdf:
\* xp.log((1-self.lambdag)*self.PL.cdf(x)+self.lambdag*self.TG.cdf(x))
PowerLawGaussian_log_cdf(h, self, x) ==
    LET pl == log_cdf(h, self.PL, x)
        tg == log_cdf(h, self.TG, x)
    IN  [i \in DOMAIN x |->
            Log(FAdd(FMul(FSub(One, self.lambdag), Exp(pl[i])),
                     FMul(self.lambdag, Exp(tg[i]))))]

\* xp.logaddexp
logaddexp(a, b) == [ln |-> FAdd(a.ln, b.ln)]

\* BrokenPowerLaw._log_pdf
BrokenPowerLaw_log_pdf(h, self, x) ==
    LET pl1 == log_pdf(h, self.PL1, x)
        pl2 == log_pdf(h, self.PL2, x)
        b1 == log_pdf(h, self.PL1, <<self.break_point>>)[1]
        b2 == log_pdf(h, self.PL2, <<self.break_point>>)[1]
    IN  [i \in DOMAIN x |->
            LSub(logaddexp(pl1[i], LSub(LAdd(pl2[i], b1), b2)),
                 Log(self.norm_fact))]

\* BrokenPowerLaw._log_cdf
BrokenPowerLaw_log_cdf(h, self, x) ==
    LET c1 == log_cdf(h, self.PL1, x)
        c2 == log_cdf(h, self.PL2, x)
        p1 == Exp(log_pdf(h, self.PL1, <<self.break_point>>)[1])
        p2 == Exp(log_pdf(h, self.PL2, <<self.break_point>>)[1])
    IN  [i \in DOMAIN x |->
            Log(FDiv(FAdd(Exp(c1[i]), FMul(Exp(c2[i]), FDiv(p1, p2))),
                     self.norm_fact))]

_log_pdf(h, self, x) ==
    CASE self.kind = "Stub" -> self.raw_pdf
      [] self.kind = "PowerLaw" -> PowerLaw_log_pdf(self, x)
      [] self.kind = "BinModel1d" -> BinModel1d_log_pdf(self, x)
      [] self.kind = "SmoothedProb" -> SmoothedProb_log_pdf(h, self, x)
      [] self.kind = "BrokenPowerLaw" -> BrokenPowerLaw_log_pdf(h, self, x)

_log_cdf(h, self, x) ==
    CASE self.kind = "Stub" -> self.raw_cdf
      [] self.kind = "PowerLaw" -> PowerLaw_log_cdf(self, x)
      [] self.kind = "NormalizingFlow1d" -> NormalizingFlow1d_log_cdf(self, x)
      [] self.kind = "BinModel1d" -> BinModel1d_log_cdf(self, x)
      [] self.kind = "SmoothedProb" -> SmoothedProb_log_cdf(h, self, x)
      [] self.kind = "TruncatedGaussian" -> TruncatedGaussian_log_cdf(self, x)
      [] self.kind = "PowerLawGaussian" -> PowerLawGaussian_log_cdf(h, self, x)
      [] self.kind = "BrokenPowerLaw" -> BrokenPowerLaw_log_cdf(h, self, x)

log_pdf(h, self, x) == _check_bound_pdf(self, x, _log_pdf(h, self, x))
log_cdf(h, self, x) == _check_bound_cdf(self, x, _log_cdf(h, self, x))
pdf(h, self, x) == [i \in DOMAIN x |-> Exp(log_pdf(h, self, x)[i])]
cdf(h, self, x) == [i \in DOMAIN x |-> Exp(log_cdf(h, self, x)[i])]

\* the object after one of its methods ran: a BinModel1d evaluates through
\* its distribution's pdf (log_pdf, pdf) or cdf (log_cdf, cdf, sample),
\* which assign attributes of the distribution; the other classes assign
\* nothing
after_call(self, op, x) ==
    CASE self.kind = "BinModel1d" /\ op \in {"log_pdf", "pdf"} ->
            [self EXCEPT !.distribution = binned_after_pdf(@, x)]
      [] self.kind = "BinModel1d" /\ op \in {"log_cdf", "cdf"} ->
            [self EXCEPT !.distribution = binned_after_cdf(@, x)]
      [] self.kind = "BinModel1d" /\ op = "sample" ->
            [self EXCEPT !.distribution =
                binned_after_cdf(@, linspace(self.minval, self.maxval, SampleGrid))]
      [] OTHER -> self

---------------------------------------------------------------------------
(* TruncatedGaussian and PowerLawGaussian *)

\* 0.5*erf(max_point) - 0.5*erf(min_point)
get_gaussian_norm(ming, maxg, meang, sigmag) ==
    FSub(FMul(Fin(1, 2), erf_sqrt2(FDiv(FSub(maxg, meang), sigmag))),
         FMul(Fin(1, 2), erf_sqrt2(FDiv(FSub(ming, meang), sigmag))))

TruncatedGaussian(meang, sigmag, ming, maxg) ==
    [kind |-> "TruncatedGaussian", minval |-> ming, maxval |-> maxg,
     meang |-> meang, sigmag |-> sigmag, ming |-> ming, maxg |-> maxg,
     norm_fact |-> get_gaussian_norm(ming, maxg, meang, sigmag)]

FMin(a, b) == IF FLt(b, a) THEN b ELSE a
FMax(a, b) == IF FGt(b, a) THEN b ELSE a

PowerLawGaussian(minpl, maxpl, alpha, lambdag, meang, sigmag, ming, maxg) ==
    [kind |-> "PowerLawGaussian",
     minval |-> FMin(minpl, ming), maxval |-> FMax(maxpl, maxg),
     minpl |-> minpl, maxpl |-> maxpl, alpha |-> alpha, lambdag |-> lambdag,
     meang |-> meang, sigmag |-> sigmag, ming |-> ming, maxg |-> maxg,
     PL |-> PowerLawAt(minpl, maxpl, alpha),
     TG |-> TruncatedGaussian(meang, sigmag, ming, maxg)]

---------------------------------------------------------------------------
(* BrokenPowerLaw.__init__ *)

BrokenPowerLaw(minpl, maxpl, alpha_1, alpha_2, b) ==
    LET break_point == FAdd(minpl, FMul(b, FSub(maxpl, minpl)))
        PL1 == PowerLawAt(minpl, break_point, alpha_1)
        PL2 == PowerLawAt(break_point, maxpl, alpha_2)
    IN  [kind |-> "BrokenPowerLaw", minval |-> minpl, maxval |-> maxpl,
         minpl |-> minpl, maxpl |-> maxpl,
         alpha_1 |-> alpha_1, alpha_2 |-> alpha_2, b |-> b,
         break_point |-> break_point,
         PL1 |-> PL1, PL2 |-> PL2,
         norm_fact |-> FAdd(One, FDiv(pdf(<<>>, PL1, <<break_point>>)[1],
                                      pdf(<<>>, PL2, <<break_point>>)[1]))]

---------------------------------------------------------------------------
(* SmoothedProb.__init__ *)

\* mutant of deepcopy: the object itself is returned, no copy is made
deepcopy_alias(h, id) == [heap |-> h, id |-> id]

\* copy.deepcopy of object id: a new object with the same attributes; the
\* objects copied here hold no other object
deepcopy(h, id) == [heap |-> Append(h, h[id]), id |-> Len(h) + 1]

\* trapz(ys, xs)
RECURSIVE Trapz(_, _, _)
Trapz(ys, xs, i) ==
    IF i = 0 THEN Zero
    ELSE FAdd(Trapz(ys, xs, i - 1),
              FMul(FSub(xs[i + 1], xs[i]),
                   FMul(FAdd(ys[i], ys[i + 1]), Fin(1, 2))))
trapz(ys, xs) == Trapz(ys, xs, Len(xs) - 1)

\* SmoothedProb(originprob, bottomsmooth) on the heap h: the heap with the
\* copy of the origin and the new object appended
SmoothedProb(h, originprob, bottomsmooth) ==
    LET cp == deepcopy(h, originprob)
        h1 == cp.heap
        caller == h[originprob]
        int_array == linspace(caller.minval, FAdd(caller.minval, bottomsmooth),
                              SmoothGrid)
        opdf == pdf(h1, h1[cp.id], int_array)
        integral_before == trapz(opdf, int_array)
        window == _S_factor(int_array, caller.minval, bottomsmooth)
        integral_now ==
            trapz([i \in 1 .. SmoothGrid |-> FMul(opdf[i], window[i])], int_array)
        x_eval == linspace(caller.minval, FAdd(caller.minval, bottomsmooth),
                           SmoothGrid)
        self0 == [kind |-> "SmoothedProb",
                  origin_prob |-> cp.id,
                  bottom_smooth |-> bottomsmooth,
                  bottom |-> caller.minval,
                  minval |-> caller.minval, maxval |-> caller.maxval,
                  integral_before |-> integral_before,
                  integral_now |-> integral_now,
                  norm |-> FAdd(FSub(One, integral_before), integral_now),
                  x_eval |-> x_eval,
                  cdf_numeric |-> <<>>]
        mids == [i \in 1 .. SmoothGrid - 1 |->
                    FMul(FAdd(x_eval[i], x_eval[i + 1]), Fin(1, 2))]
        cs == cumsum(pdf(h1, self0, mids))
        cdf_numeric == [i \in 1 .. SmoothGrid - 1 |->
                           FMul(cs[i], FSub(x_eval[i + 1], x_eval[i]))]
    IN  Append(h1, [self0 EXCEPT !.cdf_numeric = cdf_numeric])

\* sample, for the uniform draws randomcdf = xp.random.rand(N)
sample(h, self, randomcdf) ==
    LET sarray == linspace(self.minval, self.maxval, SampleGrid)
        cdfeval == cdf(h, self, sarray)
    IN  [i \in DOMAIN randomcdf |-> interp(randomcdf[i], cdfeval, sarray)]

---------------------------------------------------------------------------
(* conditional_2dimpdf *)

\* __init__ stores the two arguments: self.pdf1 = pdf1, self.pdf2 = pdf2
conditional_2dimpdf(pdf1, pdf2) ==
    [kind |-> "conditional_2dimpdf", pdf1 |-> pdf1, pdf2 |-> pdf2]

\* mutant of conditional_check_bound_pdf: the test xp.isnan(y) is missing
conditional_check_bound_pdf_no_isnan(x1, x2, y) ==
    [i \in DOMAIN y |-> IF FLt(x1[i], x2[i]) THEN LNegInf ELSE y[i]]

\* y[(x1<x2) | xp.isnan(y)] = -xp.inf
conditional_check_bound_pdf(x1, x2, y) ==
    [i \in DOMAIN y |->
        IF FLt(x1[i], x2[i]) \/ LIsNaN(y[i]) THEN LNegInf ELSE y[i]]

\* y = self.pdf1.log_pdf(x1) + self.pdf2.log_pdf(x2) - self.pdf2.log_cdf(x1)
conditional_unchecked(h, self, x1, x2) ==
    LET l1 == log_pdf(h, h[self.pdf1], x1)
        l2 == log_pdf(h, h[self.pdf2], x2)
        c  == log_cdf(h, h[self.pdf2], x1)
    IN  [i \in DOMAIN x1 |-> LSub(LAdd(l1[i], l2[i]), c[i])]

conditional_log_pdf(h, self, x1, x2) ==
    conditional_check_bound_pdf(x1, x2, conditional_unchecked(h, self, x1, x2))

conditional_pdf(h, self, x1, x2) ==
    [i \in DOMAIN x1 |-> Exp(conditional_log_pdf(h, self, x1, x2)[i])]

\* sample, for the uniform draws randomcdf1 and randomcdf2; returns the
\* pair (x1samp, x2samp)
conditional_sample(h, self, randomcdf1, randomcdf2) ==
    LET p1 == h[self.pdf1]
        p2 == h[self.pdf2]
        sarray1 == linspace(p1.minval, p1.maxval, SampleGrid)
        cdfeval1 == cdf(h, p1, sarray1)
        sarray2 == linspace(p2.minval, p2.maxval, SampleGrid)
        cdfeval2 == cdf(h, p2, sarray2)
        x1samp == [i \in DOMAIN randomcdf1 |->
                      interp(randomcdf1[i], cdfeval1, sarray1)]
        c == cdf(h, p2, x1samp)
        x2samp == [i \in DOMAIN randomcdf2 |->
                      interp(FMul(randomcdf2[i], c[i]), cdfeval2, sarray2)]
    IN  <<x1samp, x2samp>>

---------------------------------------------------------------------------
(* Evaluation of one 1D distribution whose kernels return arbitrary values *)

Idx == 1 .. ArrLen
XVals == {I(i) : i \in 0 .. MaxX} \cup {NaN}
RawVals == {LNegInf, Log(Fin(1, 2)), LZero, LPosInf, LNaN}

NoCall == [op |-> "none"]
\* the exponents of the power laws of the model
Alphas == {-2, 0, 1}
NoSfac == [op |-> "none"]

\* the distribution of the 1D calls is object 1
dist == heap[1]

InitBound ==
    /\ \E lo \in 1 .. MaxX - 1, hi \in 1 .. MaxX - 1, raw \in [Idx -> RawVals] :
          /\ lo <= hi
          /\ heap = <<Stub(lo, hi, raw, raw)>>
    /\ \E x \in [Idx -> XVals] : call = [op |-> "none", x |-> x, out |-> <<>>]
    /\ sfac = NoSfac
    /\ thr = <<>>
    /\ built = heap

CallLogPdf ==
    /\ call' = [call EXCEPT !.op = "log_pdf", !.out = log_pdf(heap, dist, call.x)]
    /\ heap' = [heap EXCEPT ![1] = after_call(dist, "log_pdf", call.x)]
    /\ UNCHANGED <<sfac, thr, built>>

CallLogCdf ==
    /\ call' = [call EXCEPT !.op = "log_cdf", !.out = log_cdf(heap, dist, call.x)]
    /\ heap' = [heap EXCEPT ![1] = after_call(dist, "log_cdf", call.x)]
    /\ UNCHANGED <<sfac, thr, built>>

CallPdf ==
    /\ call' = [call EXCEPT !.op = "pdf", !.out = pdf(heap, dist, call.x)]
    /\ heap' = [heap EXCEPT ![1] = after_call(dist, "pdf", call.x)]
    /\ UNCHANGED <<sfac, thr, built>>

CallCdf ==
    /\ call' = [call EXCEPT !.op = "cdf", !.out = cdf(heap, dist, call.x)]
    /\ heap' = [heap EXCEPT ![1] = after_call(dist, "cdf", call.x)]
    /\ UNCHANGED <<sfac, thr, built>>

NextBound == CallLogPdf \/ CallLogCdf \/ CallPdf \/ CallCdf

SpecBound == InitBound /\ [][NextBound]_vars

Outside(self, v) == FLt(v, self.minval) \/ FGt(v, self.maxval)

\* C1: whenever an input element lies below minval or above maxval, log_pdf
\* returns -infinity for it and pdf returns 0, whatever the subclass's
\* unclamped _log_pdf produced for that element.
C1_LogPdfOutsideIsNegInf ==
    \A i \in DOMAIN call.out :
        Outside(dist, call.x[i]) =>
            /\ call.op = "log_pdf" => call.out[i] = LNegInf
            /\ call.op = "pdf" => call.out[i] = Zero

\* log_pdf returned for an array with an element above maxval whose unclamped
\* value was +infinity and an element below minval whose unclamped value was
\* not-a-number
C1_Witness ==
    /\ call.op = "log_pdf"
    /\ \E i, j \in DOMAIN call.out :
          /\ FGt(call.x[i], dist.maxval) /\ dist.raw_pdf[i] = LPosInf
          /\ FLt(call.x[j], dist.minval) /\ dist.raw_pdf[j] = LNaN

\* C2: log_cdf returns -infinity (cdf 0) for an element below minval and 0
\* (cdf 1) for an element above maxval, whatever the subclass's unclamped
\* _log_cdf produced; every other element keeps the subclass's value.
C2_LogCdfClamped ==
    \A i \in DOMAIN call.out :
        /\ call.op = "log_cdf" =>
              call.out[i] = (IF FLt(call.x[i], dist.minval) THEN LNegInf
                             ELSE IF FGt(call.x[i], dist.maxval) THEN LZero
                             ELSE dist.raw_cdf[i])
        /\ call.op = "cdf" =>
              call.out[i] = (IF FLt(call.x[i], dist.minval) THEN Zero
                             ELSE IF FGt(call.x[i], dist.maxval) THEN One
                             ELSE Exp(dist.raw_cdf[i]))

\* log_cdf returned for an array with an element below minval and an element
\* above maxval, both with the unclamped value not-a-number
C2_Witness ==
    /\ call.op = "log_cdf"
    /\ \E i, j \in DOMAIN call.out :
          /\ FLt(call.x[i], dist.minval) /\ dist.raw_cdf[i] = LNaN
          /\ FGt(call.x[j], dist.maxval) /\ dist.raw_cdf[j] = LNaN

\* cdf returned for an element inside the support, with the value the
\* subclass gave
C2_WitnessInside ==
    /\ call.op = "cdf"
    /\ \E i \in DOMAIN call.out :
          /\ ~Outside(dist, call.x[i]) /\ dist.raw_cdf[i] = Log(Fin(1, 2))

---------------------------------------------------------------------------
(* Evaluation of the cumulative of the concrete 1D distributions *)

\* the queries: the multiples of 1/2 in [0, MaxX]
HalfX == {Fin(k, 2) : k \in 0 .. 2 * MaxX}

SlopeLists == [1 .. 3 -> {Zero, One}]
XRanges == {2, 3}
WeightLists ==
    {w \in UNION {[1 .. n -> 0 .. MaxWeight] : n \in 1 .. MaxBins} :
        \E i \in DOMAIN w : w[i] > 0}

Dists1d(lo, hi) ==
    {PowerLaw(lo, hi, a) : a \in Alphas}
    \cup {NormalizingFlow1d(lo, hi, sl, xr) : sl \in SlopeLists, xr \in XRanges}
    \cup {BinModel1d(lo, hi, w) : w \in WeightLists}

InitCdf ==
    /\ \E lo \in 1 .. MaxX, hi \in 1 .. MaxX :
          /\ lo < hi
          /\ \E d \in Dists1d(lo, hi) : heap = <<d>>
    /\ \E x \in [Idx -> HalfX] : call = [op |-> "none", x |-> x, out |-> <<>>]
    /\ sfac = NoSfac
    /\ thr = <<>>
    /\ built = heap

NextCdf == CallLogCdf \/ CallCdf

SpecCdf == InitCdf /\ [][NextCdf]_vars

InSupport(self, v) == FLe(self.minval, v) /\ FLe(v, self.maxval)

\* C3: for every 1D distribution, cdf is 0 at minval and 1 at maxval (to
\* 1/1000), no cdf value exceeds 1, and cdf is non-decreasing on
\* [minval, maxval].
C3_CdfIsACdf ==
    call.op = "cdf" =>
        \A i \in DOMAIN call.out :
            /\ call.x[i] = dist.minval => FLe(call.out[i], Fin(1, 1000))
            /\ call.x[i] = dist.maxval => FGe(call.out[i], Fin(999, 1000))
            /\ FLe(call.out[i], One)
            /\ \A j \in DOMAIN call.out :
                  (/\ InSupport(dist, call.x[i]) /\ InSupport(dist, call.x[j])
                   /\ FLe(call.x[i], call.x[j]))
                      => FLe(call.out[i], call.out[j])

\* the same statement for the distributions other than NormalizingFlow1d
C3_HoldsButForTheFlow ==
    dist.kind # "NormalizingFlow1d" => C3_CdfIsACdf

---------------------------------------------------------------------------
(* Evaluation of a conditional_2dimpdf over two distributions whose kernels *)
(* return arbitrary values.  The methods are elementwise: the arrays hold   *)
(* one element.                                                            *)

FinX == {I(i) : i \in 0 .. MaxX}

\* the conditional distribution is object 3, over the objects 1 and 2
cond == heap[3]

InitCond ==
    /\ \E lo1 \in 1 .. MaxX - 1, hi1 \in 1 .. MaxX - 1,
          lo2 \in 1 .. MaxX - 1, hi2 \in 1 .. MaxX - 1,
          r1 \in RawVals, r2 \in RawVals, c2 \in RawVals :
          /\ lo1 <= hi1 /\ lo2 <= hi2
          /\ heap = << Stub(lo1, hi1, <<r1>>, <<r1>>),
                       Stub(lo2, hi2, <<r2>>, <<c2>>),
                       conditional_2dimpdf(1, 2) >>
    /\ \E x1 \in FinX, x2 \in FinX :
          call = [op |-> "none", x1 |-> <<x1>>, x2 |-> <<x2>>, out |-> <<>>]
    /\ sfac = NoSfac
    /\ thr = <<>>
    /\ built = heap

CallCondLogPdf ==
    /\ call' = [call EXCEPT !.op = "log_pdf",
                   !.out = conditional_log_pdf(heap, cond, call.x1, call.x2)]
    /\ UNCHANGED <<heap, sfac, thr, built>>

CallCondPdf ==
    /\ call' = [call EXCEPT !.op = "pdf",
                   !.out = conditional_pdf(heap, cond, call.x1, call.x2)]
    /\ UNCHANGED <<heap, sfac, thr, built>>

NextCond == CallCondLogPdf \/ CallCondPdf

SpecCond == InitCond /\ [][NextCond]_vars

\* pdf1.log_pdf(x1) + pdf2.log_pdf(x2) - pdf2.log_cdf(x1) of element i
CondSum(i) ==
    LSub(LAdd(log_pdf(heap, heap[1], call.x1)[i],
              log_pdf(heap, heap[2], call.x2)[i]),
         log_cdf(heap, heap[2], call.x1)[i])

\* C4: conditional_2dimpdf.log_pdf returns -infinity for every element with
\* x1 < x2 and for every element whose sum pdf1.log_pdf(x1) +
\* pdf2.log_pdf(x2) - pdf2.log_cdf(x1) is not-a-number, and no element of
\* the result is not-a-number.
C4_CondLogPdfNoNaN ==
    call.op = "log_pdf" =>
        \A i \in DOMAIN call.out :
            /\ FLt(call.x1[i], call.x2[i]) => call.out[i] = LNegInf
            /\ LIsNaN(CondSum(i)) => call.out[i] = LNegInf
            /\ ~LIsNaN(call.out[i])

\* log_pdf returned for x2 <= x1, both below pdf2.minval, where the sum is
\* (-infinity) - (-infinity) although the unclamped values were finite
C4_Witness ==
    /\ call.op = "log_pdf"
    /\ \E i \in DOMAIN call.out :
          /\ FLe(call.x2[i], call.x1[i])
          /\ FLt(call.x1[i], heap[2].minval)
          /\ ~Outside(heap[1], call.x1[i])
          /\ heap[1].raw_pdf[i] = LZero
          /\ heap[2].raw_pdf[i] = LZero /\ heap[2].raw_cdf[i] = LZero
          /\ LIsNaN(CondSum(i))

---------------------------------------------------------------------------
(* Sampling from a conditional_2dimpdf over two power laws *)

UVals == {Fin(k, UDen) : k \in 0 .. UDen - 1}

InitSample ==
    /\ \E lo1 \in 1 .. MaxX, hi1 \in 1 .. MaxX, a1 \in Alphas,
          lo2 \in 1 .. MaxX, hi2 \in 1 .. MaxX, a2 \in Alphas :
          /\ lo1 < hi1 /\ lo2 < hi2
          /\ heap = << PowerLaw(lo1, hi1, a1), PowerLaw(lo2, hi2, a2),
                       conditional_2dimpdf(1, 2) >>
    /\ \E u1 \in UVals, u2 \in UVals :
          call = [op |-> "none", u1 |-> <<u1>>, u2 |-> <<u2>>, out |-> <<>>]
    /\ sfac = NoSfac
    /\ thr = <<>>
    /\ built = heap

CallCondSample ==
    /\ call.op = "none"
    /\ call' = [call EXCEPT !.op = "sample",
                   !.out = conditional_sample(heap, cond, call.u1, call.u2)]
    /\ UNCHANGED <<heap, sfac, thr, built>>

NextSample == CallCondSample

SpecSample == InitSample /\ [][NextSample]_vars

\* C5: every pair (x1, x2) that conditional_2dimpdf.sample returns has
\* x2 <= x1, for every choice of the two sub-distributions and of the two
\* uniform draws in [0, 1).
C5_SampleOrdered ==
    call.op = "sample" =>
        \A i \in DOMAIN call.out[1] : FLe(call.out[2][i], call.out[1][i])

---------------------------------------------------------------------------
(* Calls of the window function *)

\* the distance of a query from mmin, in 32nds
SfOffsets == {-32, 0, 1, 8, 16, 24, 31, 32, 48, 63, 64, 96}

InitSfac ==
    /\ heap = <<>>
    /\ call = NoCall
    /\ thr = <<>>
    /\ built = heap
    /\ \E mmin \in 0 .. 1, w \in 0 .. 2, off \in [Idx -> SfOffsets] :
          sfac = [op |-> "none", mmin |-> I(mmin), delta_m |-> I(w),
                  mass |-> [i \in Idx |-> FAdd(I(mmin), Fin(off[i], 32))],
                  out |-> <<>>]

CallSFactor ==
    /\ sfac.op = "none"
    /\ sfac' = [sfac EXCEPT !.op = "_S_factor",
                   !.out = _S_factor(sfac.mass, sfac.mmin, sfac.delta_m)]
    /\ UNCHANGED <<heap, call, thr, built>>

NextSfac == CallSFactor

SpecSfac == InitSfac /\ [][NextSfac]_vars

\* w / mprime of element i, as the floating-point division gives it
FDivSat(c, i) == Sat(FDiv(c.delta_m, Sat(FSub(c.mass[i], c.mmin))))

InWindow(c, i) ==
    FGt(c.mass[i], c.mmin) /\ FLt(c.mass[i], FAdd(c.mmin, c.delta_m))

\* C10: with w > 0, _S_factor(x, minval, w) is exactly 0 for x <= minval and
\* exactly 1 for x >= minval + w, and for minval < x < minval + w it is a
\* number in [0, 1], never not-a-number (an overflowing exponential gives 0);
\* with w = 0 it is 1 for every x.
C10_WindowValues ==
    sfac.op = "_S_factor" =>
        \A i \in DOMAIN sfac.out :
            /\ (FGt(sfac.delta_m, Zero) /\ FLe(sfac.mass[i], sfac.mmin))
                  => sfac.out[i] = Zero
            /\ (FGt(sfac.delta_m, Zero)
                  /\ FGe(sfac.mass[i], FAdd(sfac.mmin, sfac.delta_m)))
                  => sfac.out[i] = One
            /\ (FGt(sfac.delta_m, Zero) /\ InWindow(sfac, i))
                  => /\ ~IsNaN(sfac.out[i])
                     /\ FLe(Zero, sfac.out[i]) /\ FLe(sfac.out[i], One)
            /\ sfac.delta_m = Zero => sfac.out[i] = One

\* a query just above minval, where w/mprime overflows, came out as 0, next
\* to a query at or below minval
C10_Witness ==
    /\ sfac.op = "_S_factor"
    /\ FGt(sfac.delta_m, Zero)
    /\ \E i, j \in DOMAIN sfac.out :
          /\ InWindow(sfac, i) /\ sfac.out[i] = Zero
          /\ ~IsFin(FDivSat(sfac, i))
          /\ FLe(sfac.mass[j], sfac.mmin)

---------------------------------------------------------------------------
(* Two threads evaluate on one shared piecewise_constant_distribution_     *)
(* normalized, each with its own input array. A step of a thread is one    *)
(* statement of pdf or cdf: an assignment of an attribute of the shared    *)
(* instance, or the return, in which the stored lambda reads               *)
(* self.conditions and self.linear_functions as they are at that moment.   *)

Threads == {1, 2}

\* the shared instance is object 1
shared == heap[1]

InitThreads ==
    /\ \E lo \in 0 .. MaxX - 1 : \E w \in WeightLists :
          heap = <<piecewise_constant_distribution_normalized(lo, lo + 1, w)>>
    /\ \E m1, m2 \in {"pdf", "cdf"} : \E v1, v2 \in HalfX :
          /\ v1 # v2
          /\ thr = <<[method |-> m1, x |-> <<v1>>, pc |-> "conditions",
                      ret |-> [status |-> "none"]],
                     [method |-> m2, x |-> <<v2>>, pc |-> "conditions",
                      ret |-> [status |-> "none"]]>>
    /\ call = NoCall
    /\ sfac = NoSfac
    /\ built = heap

\* self.conditions = self.get_conditions(x)
SetConditions(t) ==
    /\ thr[t].pc = "conditions"
    /\ heap' = [heap EXCEPT ![1].conditions = get_conditions(shared, thr[t].x),
                            ![1].attrs = @ \cup {"conditions"}]
    /\ thr' = [thr EXCEPT ![t].pc = IF thr[t].method = "pdf" THEN "func"
                                    ELSE "linear"]
    /\ UNCHANGED <<call, sfac, built>>

\* self.linear_functions = [linear_function(...) for i in range(self.n_bins)]
SetLinearFunctions(t) ==
    /\ thr[t].pc = "linear"
    /\ heap' = [heap EXCEPT ![1].linear_functions = make_linear_functions(shared),
                            ![1].attrs = @ \cup {"linear_functions"}]
    /\ thr' = [thr EXCEPT ![t].pc = "extend"]
    /\ UNCHANGED <<call, sfac, built>>

\* self.linear_functions = [0] + self.linear_functions + [1]
ExtendLinearFunctions(t) ==
    /\ thr[t].pc = "extend"
    /\ heap' = [heap EXCEPT ![1].linear_functions =
                                <<Const(Zero)>> \o @ \o <<Const(One)>>]
    /\ thr' = [thr EXCEPT ![t].pc = "func"]
    /\ UNCHANGED <<call, sfac, built>>

\* self.pdf_func = lambda ... ; self.cdf_func = lambda ...
SetFunc(t) ==
    /\ thr[t].pc = "func"
    /\ heap' = [heap EXCEPT ![1].attrs =
                    @ \cup {IF thr[t].method = "pdf" THEN "pdf_func"
                            ELSE "cdf_func"}]
    /\ thr' = [thr EXCEPT ![t].pc = "return"]
    /\ UNCHANGED <<call, sfac, built>>

\* return self.pdf_func(x) ; return self.cdf_func(x)
Return(t) ==
    /\ thr[t].pc = "return"
    /\ LET funclist == IF thr[t].method = "pdf" THEN weight_functions(shared)
                       ELSE shared.linear_functions
       IN  thr' = [thr EXCEPT
                ![t].pc = "done",
                ![t].ret =
                    IF piecewise_accepts(shared.conditions, funclist)
                    THEN [status |-> "returned",
                          val |-> piecewise(thr[t].x, shared.conditions, funclist)]
                    ELSE [status |-> "ValueError"]]
    /\ UNCHANGED <<heap, call, sfac, built>>

NextThreads ==
    \E t \in Threads :
        \/ SetConditions(t)
        \/ SetLinearFunctions(t)
        \/ ExtendLinearFunctions(t)
        \/ SetFunc(t)
        \/ Return(t)

SpecThreads == InitThreads /\ [][NextThreads]_vars

\* what the call of thread t returns when it runs alone on the instance
Alone(t) ==
    [status |-> "returned",
     val |-> IF thr[t].method = "pdf" THEN binned_pdf(built[1], thr[t].x)
             ELSE binned_cdf(built[1], thr[t].x)]

\* C6: two threads that call pdf or cdf on the same instance with different
\* input arrays each get the result their own call gives when it runs alone.
C6_ThreadsGetOwnResult ==
    \A t \in Threads : thr[t].pc = "done" => thr[t].ret = Alone(t)

\* a thread that runs its call from the first statement to the return while
\* the other thread has not started does get its own result
C6_UninterruptedIsRight ==
    \A t \in Threads :
        (thr[t].pc = "done" /\ \A o \in Threads \ {t} : thr[o].pc = "conditions")
            => thr[t].ret = Alone(t)

\* C7: no call of pdf, log_pdf, cdf, log_cdf or sample writes an attribute:
\* after any sequence of calls the objects are as the constructors left them.
C7_NoAttributeWritten == heap = built

---------------------------------------------------------------------------
(* The caller keeps the objects it passed to a constructor and assigns     *)
(* their attributes afterwards                                             *)

\* originprob.minval = v, by the caller
CallerSetMinval(id) ==
    /\ \E v \in 1 .. MaxX :
          /\ FLe(I(v), heap[id].maxval)
          /\ I(v) # heap[id].minval
          /\ heap' = [heap EXCEPT ![id].minval = I(v)]
    /\ call' = [call EXCEPT !.op = "none", !.out = <<>>]
    /\ UNCHANGED <<sfac, thr, built>>

\* originprob.maxval = v, by the caller
CallerSetMaxval(id) ==
    /\ \E v \in 1 .. MaxX :
          /\ FGe(I(v), heap[id].minval)
          /\ I(v) # heap[id].maxval
          /\ heap' = [heap EXCEPT ![id].maxval = I(v)]
    /\ call' = [call EXCEPT !.op = "none", !.out = <<>>]
    /\ UNCHANGED <<sfac, thr, built>>

\* a conditional_2dimpdf over two power laws of the caller, objects 1 and 2
InitAlias ==
    /\ \E lo1 \in 1 .. MaxX, hi1 \in 1 .. MaxX, a1 \in Alphas,
          lo2 \in 1 .. MaxX, hi2 \in 1 .. MaxX, a2 \in Alphas :
          /\ lo1 < hi1 /\ lo2 < hi2
          /\ heap = << PowerLaw(lo1, hi1, a1), PowerLaw(lo2, hi2, a2),
                       conditional_2dimpdf(1, 2) >>
    /\ \E x1 \in FinX, x2 \in FinX :
          call = [op |-> "none", x1 |-> <<x1>>, x2 |-> <<x2>>,
                  u1 |-> <<Fin(1, 2)>>, u2 |-> <<Fin(1, 2)>>, out |-> <<>>]
    /\ sfac = NoSfac
    /\ thr = <<>>
    /\ built = heap

NextAlias ==
    \/ \E id \in {1, 2} : CallerSetMinval(id) \/ CallerSetMaxval(id)
    \/ CallCondLogPdf
    \/ CallCondSample

SpecAlias == InitAlias /\ [][NextAlias]_vars

\* C8: a conditional_2dimpdf holds its own copies of pdf1 and pdf2: what
\* log_pdf and sample return is what they return on the objects as they were
\* at construction, whatever the caller assigned to its objects since.
C8_CallerMutationInvisible ==
    /\ call.op = "log_pdf" =>
          call.out = conditional_log_pdf(built, built[3], call.x1, call.x2)
    /\ call.op = "sample" =>
          call.out = conditional_sample(built, built[3], call.u1, call.u2)

---------------------------------------------------------------------------
(* A SmoothedProb over a power law of the caller, object 1 *)

BottomSmooths == {0, 1}

\* the SmoothedProb is the object constructed last
smooth == heap[Len(heap)]

InitSmooth ==
    /\ \E lo \in 1 .. MaxX, hi \in 1 .. MaxX, a \in Alphas, w \in BottomSmooths :
          /\ lo < hi
          /\ heap = SmoothedProb(<<PowerLaw(lo, hi, a)>>, 1, I(w))
    /\ \E v \in HalfX : call = [op |-> "none", x |-> <<v>>, out |-> <<>>]
    /\ sfac = NoSfac
    /\ thr = <<>>
    /\ built = heap

CallSmoothLogPdf ==
    /\ call' = [call EXCEPT !.op = "log_pdf", !.out = log_pdf(heap, smooth, call.x)]
    /\ UNCHANGED <<heap, sfac, thr, built>>

CallSmoothLogCdf ==
    /\ call' = [call EXCEPT !.op = "log_cdf", !.out = log_cdf(heap, smooth, call.x)]
    /\ UNCHANGED <<heap, sfac, thr, built>>

NextSmooth ==
    \/ CallerSetMinval(1)
    \/ CallerSetMaxval(1)
    \/ CallSmoothLogPdf
    \/ CallSmoothLogCdf

SpecSmooth == InitSmooth /\ [][NextSmooth]_vars

\* C9: a SmoothedProb holds a deep copy of the distribution it was built
\* from: the copy is another object than the caller's, and the copy, the
\* stored bottom, minval, maxval, norm and tables, and what log_pdf and
\* log_cdf return stay what they were at construction, whatever the caller
\* assigned to its distribution since.
C9_SmoothedProbIndependent ==
    /\ smooth.origin_prob # 1
    /\ smooth = built[Len(built)]
    /\ heap[smooth.origin_prob] = built[smooth.origin_prob]
    /\ call.op = "log_pdf" =>
          call.out = log_pdf(built, built[Len(built)], call.x)
    /\ call.op = "log_cdf" =>
          call.out = log_cdf(built, built[Len(built)], call.x)

\* the caller raised the minval of its distribution above the point at which
\* log_pdf was then evaluated, and log_pdf returned a finite value
C9_Witness ==
    /\ FGt(heap[1].minval, built[1].minval)
    /\ call.op = "log_pdf"
    /\ FLt(call.x[1], heap[1].minval)
    /\ IsFin(Exp(call.out[1])) /\ FGt(Exp(call.out[1]), Zero)

---------------------------------------------------------------------------
(* piecewise_constant_2d_distribution_normalized *)

\* int(-1/2 + np.sqrt(1/4 + 2 * n_bins)): the largest n with n(n+1)/2 <= n_bins
n_bins_1d_of(n_bins) ==
    SetMax({n \in 0 .. n_bins : n * (n + 1) <= 2 * n_bins})

\* np.triu_indices(n, k = 0): the pairs (row, column) with row <= column,
\* row by row, as a sequence
triu_indices(n) ==
    LET pairs == {p \in (0 .. n - 1) \X (0 .. n - 1) : p[1] <= p[2]}
        before(q, p) == q[1] < p[1] \/ (q[1] = p[1] /\ q[2] < p[2])
        rank(p) == Cardinality({q \in pairs : before(q, p)})
    IN  [k \in 1 .. Cardinality(pairs) |-> CHOOSE p \in pairs : rank(p) = k - 1]

\* mutant of compute_norm: the diagonal is not halved
compute_norm_no_half(weights, n, delta_bin_x1, delta_bin_x2) ==
    FDiv(FDiv(FMul(FDiv(One, FSum(weights)), One), delta_bin_x1), delta_bin_x2)

\* compute_norm: the weights go to the upper triangle of a matrix, the
\* diagonal is halved, norm = 1 / sum * 1 / delta_bin_x1 / delta_bin_x2
compute_norm(weights, n, delta_bin_x1, delta_bin_x2) ==
    LET idx == triu_indices(n)
        m == [k \in 1 .. Len(idx) |->
                 IF idx[k][1] = idx[k][2] THEN FMul(weights[k], Fin(1, 2))
                 ELSE weights[k]]
    IN  FDiv(FDiv(FMul(FDiv(One, FSum(m)), One), delta_bin_x1), delta_bin_x2)

\* __init__; the attributes conditions and pdf_func do not exist yet
piecewise_constant_2d_distribution_normalized(dist_min, dist_max, weights) ==
    LET n_bins == Len(weights)
        n == n_bins_1d_of(n_bins)
        w == [k \in 1 .. n_bins |-> I(weights[k])]
        grid == linspace(I(dist_min), I(dist_max), n + 1)
        delta == FSub(grid[2], grid[1])
        norm == compute_norm(w, n, delta, delta)
    IN  [kind |-> "piecewise_constant_2d_distribution_normalized",
         dist_min |-> I(dist_min), dist_max |-> I(dist_max),
         n_bins |-> n_bins, n_bins_1d |-> n,
         weights |-> w,
         grid_x1 |-> grid, grid_x2 |-> grid,
         delta_bin_x1 |-> delta, delta_bin_x2 |-> delta,
         norm |-> norm,
         weights_normalized |-> [k \in 1 .. n_bins |-> FMul(norm, w[k])],
         attrs |-> {},
         conditions |-> <<>>]

outside_domain_1d(self, x) ==
    [e \in DOMAIN x |-> FLt(x[e], self.dist_min) \/ FGt(x[e], self.dist_max)]

\* mutant of outside_domain_2d: the test x1 < x2 is missing
outside_domain_2d_square(self, x1, x2) ==
    [e \in DOMAIN x1 |->
        outside_domain_1d(self, x1)[e] \/ outside_domain_1d(self, x2)[e]]

outside_domain_2d(self, x1, x2) ==
    [e \in DOMAIN x1 |->
        \/ outside_domain_1d(self, x1)[e] \/ outside_domain_1d(self, x2)[e]
        \/ FLt(x1[e], x2[e])]

\* a // b on floats
floor_divide(a, b) ==
    IF IsFin(a) /\ IsFin(b) /\ b # Zero THEN I(Floor(FDiv(a, b))) ELSE NaN

\* (n1, n2), each an array
determine_grid_position(self, x1, x2) ==
    << [e \in DOMAIN x1 |->
           floor_divide(FSub(x1[e], self.dist_min), self.delta_bin_x1)],
       [e \in DOMAIN x2 |->
           floor_divide(FSub(x2[e], self.dist_min), self.delta_bin_x2)] >>

\* mutant of compute_flat_position: the triangle is not subtracted
compute_flat_position_square(self, position_in_grid) ==
    [e \in DOMAIN position_in_grid[1] |->
        FAdd(position_in_grid[1][e],
             FMul(I(self.n_bins_1d), position_in_grid[2][e]))]

compute_flat_position(self, position_in_grid) ==
    [e \in DOMAIN position_in_grid[1] |->
        LET flat_position_in_square ==
                FAdd(position_in_grid[1][e],
                     FMul(I(self.n_bins_1d), position_in_grid[2][e]))
            subtract_triangle_constraint ==
                FDiv(FMul(position_in_grid[2][e],
                          FAdd(position_in_grid[2][e], One)), I(2))
        IN  FSub(flat_position_in_square, subtract_triangle_constraint)]

\* [positions == i for i in range(self.n_bins)]
compute_conditions(self, positions) ==
    [i \in 1 .. self.n_bins |->
        [e \in DOMAIN positions |-> FEq(positions[e], I(i - 1))]]

\* the object after pdf(x1, x2) ran, and what it returned
pdf2d_after(self, x1, x2) ==
    LET positions_flat ==
            compute_flat_position(self, determine_grid_position(self, x1, x2))
    IN  [self EXCEPT !.conditions = compute_conditions(self, positions_flat),
                     !.attrs = @ \cup {"conditions", "pdf_func"}]

pdf2d(self, x1, x2) ==
    LET positions_flat ==
            compute_flat_position(self, determine_grid_position(self, x1, x2))
        v == piecewise(positions_flat, pdf2d_after(self, x1, x2).conditions,
                       [k \in 1 .. self.n_bins |->
                           Const(self.weights_normalized[k])])
        out == outside_domain_2d(self, x1, x2)
    IN  [e \in DOMAIN x1 |-> IF out[e] THEN Zero ELSE v[e]]

log_pdf2d(self, x1, x2) == [e \in DOMAIN x1 |-> Log(pdf2d(self, x1, x2)[e])]

---------------------------------------------------------------------------
(* The flat index of a position of the triangle *)

\* the index pairs (i, j) of the lower triangle of an n x n grid
Tri(n) == {p \in (0 .. n - 1) \X (0 .. n - 1) : p[2] <= p[1]}

\* compute_flat_position for one position (i, j) of a grid of n bins per axis
flat(n, i, j) ==
    compute_flat_position([n_bins_1d |-> n], << <<I(i)>>, <<I(j)>> >>)[1]

InitFlat ==
    /\ \E n \in 1 .. MaxFlat : \E p \in Tri(n) :
          call = [op |-> "none", n |-> n, i |-> p[1], j |-> p[2], out |-> NaN]
    /\ heap = <<>>
    /\ sfac = NoSfac
    /\ thr = <<>>
    /\ built = heap

CallFlat ==
    /\ call.op = "none"
    /\ call' = [call EXCEPT !.op = "flat", !.out = flat(call.n, call.i, call.j)]
    /\ UNCHANGED <<heap, sfac, thr, built>>

NextFlat == CallFlat

SpecFlat == InitFlat /\ [][NextFlat]_vars

\* C11: for the n of the call, compute_flat_position maps the pairs (i, j)
\* with 0 <= j <= i < n one-to-one onto 0 .. n(n+1)/2 - 1: the index of the
\* call's pair is in range, no other pair has it, and every index of the
\* range is the index of some pair.
C11_FlatIsBijection ==
    call.op = "flat" =>
        LET n == call.n
            last == (n * (n + 1)) \div 2 - 1
        IN  /\ \E k \in 0 .. last : call.out = I(k)
            /\ \A q \in Tri(n) :
                  flat(n, q[1], q[2]) = call.out => q = <<call.i, call.j>>
            /\ \A k \in 0 .. last : \E q \in Tri(n) : flat(n, q[1], q[2]) = I(k)

\* the index of a pair off the first row and off the diagonal was computed
C11_Witness ==
    /\ call.op = "flat"
    /\ call.n >= 3 /\ call.j >= 1 /\ call.i > call.j
    /\ IsFin(call.out)

---------------------------------------------------------------------------
(* Evaluation of one 2D binned distribution at one point *)

\* the weight lists of the 2D distributions: all ones, 1, 2, 3, ..., and all
\* zeros but a one, for every triangular number of bins
TriWeightLists ==
    UNION {LET nb == (n * (n + 1)) \div 2
           IN  {[k \in 1 .. nb |-> 1], [k \in 1 .. nb |-> k]}
               \cup {[k \in 1 .. nb |-> IF k = d THEN 1 ELSE 0] : d \in 1 .. nb}
           : n \in 1 .. MaxGrid}

\* the 2D distribution is object 1
grid2d == heap[1]

InitGrid2d ==
    /\ \E lo \in 0 .. MaxX, hi \in 0 .. MaxX, w \in TriWeightLists :
          /\ lo < hi
          /\ heap = <<piecewise_constant_2d_distribution_normalized(lo, hi, w)>>
    /\ \E a \in HalfX, b \in HalfX :
          call = [op |-> "none", x1 |-> <<a>>, x2 |-> <<b>>, out |-> <<>>]
    /\ sfac = NoSfac
    /\ thr = <<>>
    /\ built = heap

CallPdf2d ==
    /\ call' = [call EXCEPT !.op = "pdf",
                   !.out = pdf2d(grid2d, call.x1, call.x2)]
    /\ heap' = [heap EXCEPT ![1] = pdf2d_after(grid2d, call.x1, call.x2)]
    /\ UNCHANGED <<sfac, thr, built>>

CallLogPdf2d ==
    /\ call' = [call EXCEPT !.op = "log_pdf",
                   !.out = log_pdf2d(grid2d, call.x1, call.x2)]
    /\ heap' = [heap EXCEPT ![1] = pdf2d_after(grid2d, call.x1, call.x2)]
    /\ UNCHANGED <<sfac, thr, built>>

NextGrid2d == CallPdf2d \/ CallLogPdf2d

SpecGrid2d == InitGrid2d /\ [][NextGrid2d]_vars

\* what pdf returns at a point inside the bin (i, j): the point
\* (left edge + 2/3 delta, lower edge + 1/3 delta), below the diagonal
PdfInBin(self, i, j) ==
    pdf2d(self,
          <<FAdd(self.grid_x1[i + 1], FMul(Fin(2, 3), self.delta_bin_x1))>>,
          <<FAdd(self.grid_x2[j + 1], FMul(Fin(1, 3), self.delta_bin_x2))>>)[1]

\* the area of the part of bin (i, j) below the diagonal
BinArea(self, i, j) ==
    LET square == FMul(self.delta_bin_x1, self.delta_bin_x2)
    IN  IF i = j THEN FMul(square, Fin(1, 2)) ELSE square

\* C12: the sum over the triangular bins of the density that pdf returns in
\* the bin times the area of the bin, half a square for the diagonal bins,
\* is 1.
C12_TotalMassIsOne ==
    LET self == grid2d
        bins == triu_indices(self.n_bins_1d)
    IN  FSum([k \in 1 .. Len(bins) |->
                 FMul(PdfInBin(self, bins[k][2], bins[k][1]),
                      BinArea(self, bins[k][2], bins[k][1]))]) = One

\* a distribution of three bins per axis whose weights differ between a
\* diagonal and an off-diagonal bin was constructed and evaluated
C12_Witness ==
    /\ grid2d.n_bins_1d = 3
    /\ grid2d.weights[1] # grid2d.weights[2]
    /\ call.op = "pdf"

\* C13: pdf returns 0 for a query with x1 < x2 and for a query with x1 or x2
\* below dist_min or above dist_max.
C13_ZeroOutsideDomain ==
    call.op = "pdf" =>
        \A e \in DOMAIN call.x1 :
            (\/ FLt(call.x1[e], call.x2[e])
             \/ FLt(call.x1[e], grid2d.dist_min) \/ FGt(call.x1[e], grid2d.dist_max)
             \/ FLt(call.x2[e], grid2d.dist_min) \/ FGt(call.x2[e], grid2d.dist_max))
                => call.out[e] = Zero

\* the flat position computed for the query
QueryFlat == compute_flat_position(grid2d,
                 determine_grid_position(grid2d, call.x1, call.x2))[1]

\* pdf returned 0 for a query above the diagonal, inside the square, whose
\* flat position is the index of a bin of positive weight
C13_Witness ==
    /\ call.op = "pdf"
    /\ FLt(call.x1[1], call.x2[1])
    /\ FGe(call.x1[1], grid2d.dist_min) /\ FLe(call.x2[1], grid2d.dist_max)
    /\ \E k \in 1 .. grid2d.n_bins :
          QueryFlat = I(k - 1) /\ FGt(grid2d.weights_normalized[k], Zero)
    /\ call.out = <<Zero>>

\* the query's grid position is a bin (i, j) of the triangle and pdf
\* returned the normalized weight of that bin
GetsItsBin(e) ==
    LET pos == determine_grid_position(grid2d, call.x1, call.x2)
        n == grid2d.n_bins_1d
    IN  \E p \in Tri(n) :
            /\ pos[1][e] = I(p[1]) /\ pos[2][e] = I(p[2])
            /\ FLe(grid2d.grid_x1[p[1] + 1], call.x1[e])
            /\ FLe(call.x1[e], grid2d.grid_x1[p[1] + 2])
            /\ FLe(grid2d.grid_x2[p[2] + 1], call.x2[e])
            /\ FLe(call.x2[e], grid2d.grid_x2[p[2] + 2])
            /\ \E k \in 1 .. grid2d.n_bins :
                  /\ flat(n, p[1], p[2]) = I(k - 1)
                  /\ call.out[e] = grid2d.weights_normalized[k]

\* C20: for every query with dist_min <= x2 <= x1 <= dist_max, bin edges
\* and dist_max included, the grid position (n1, n2) has 0 <= n2 <= n1 < n
\* and pdf returns the normalized weight of that bin.
C20_InDomainGetsItsBin ==
    call.op = "pdf" =>
        \A e \in DOMAIN call.x1 :
            (/\ FLe(grid2d.dist_min, call.x2[e])
             /\ FLe(call.x2[e], call.x1[e])
             /\ FLe(call.x1[e], grid2d.dist_max)) => GetsItsBin(e)

\* the same for the queries with x1 below dist_max
C20_HoldsBelowDistMax ==
    call.op = "pdf" =>
        \A e \in DOMAIN call.x1 :
            (/\ FLe(grid2d.dist_min, call.x2[e])
             /\ FLe(call.x2[e], call.x1[e])
             /\ FLt(call.x1[e], grid2d.dist_max)) => GetsItsBin(e)

---------------------------------------------------------------------------
(* Evaluation of one 1D binned distribution at one point *)

\* the 1D binned distribution is object 1
binned == heap[1]

InitBin1d ==
    /\ \E lo \in 0 .. MaxX, hi \in 0 .. MaxX, w \in WeightLists :
          /\ lo < hi
          /\ heap = <<piecewise_constant_distribution_normalized(lo, hi, w)>>
    /\ \E v \in HalfX : call = [op |-> "none", x |-> <<v>>, out |-> <<>>]
    /\ sfac = NoSfac
    /\ thr = <<>>
    /\ built = heap

CallBinnedPdf ==
    /\ call' = [call EXCEPT !.op = "pdf", !.out = binned_pdf(binned, call.x)]
    /\ heap' = [heap EXCEPT ![1] = binned_after_pdf(binned, call.x)]
    /\ UNCHANGED <<sfac, thr, built>>

CallBinnedCdf ==
    /\ call' = [call EXCEPT !.op = "cdf", !.out = binned_cdf(binned, call.x)]
    /\ heap' = [heap EXCEPT ![1] = binned_after_cdf(binned, call.x)]
    /\ UNCHANGED <<sfac, thr, built>>

NextBin1d == CallBinnedPdf \/ CallBinnedCdf

SpecBin1d == InitBin1d /\ [][NextBin1d]_vars

\* the weight of bin i divided by the sum of the weights times the bin width
NormalizedWeight(self, i) ==
    FDiv(self.weights_with_boundaries[i + 1],
         FMul(FSum(self.weights_with_boundaries),
              FDiv(FSub(self.dist_max, self.dist_min), I(self.n_bins))))

\* the antiderivative of the density at v: 0 up to dist_min, 1 from dist_max
\* on, and in bin i the mass of the bins before i plus the weight of bin i
\* times the distance from its left edge
Antiderivative(self, v) ==
    LET width == FDiv(FSub(self.dist_max, self.dist_min), I(self.n_bins))
        left(i) == FAdd(self.dist_min, FMul(I(i - 1), width))
        before(i) == FSum([k \in 1 .. i - 1 |-> NormalizedWeight(self, k)])
    IN  CASE FLe(v, self.dist_min) -> Zero
          [] FGe(v, self.dist_max) -> One
          [] OTHER ->
                LET i == SetMax({k \in 1 .. self.n_bins : FLe(left(k), v)})
                IN  FAdd(FMul(before(i), width),
                         FMul(NormalizedWeight(self, i), FSub(v, left(i))))

\* C14: cdf of the 1D binned distribution is the piecewise-linear
\* antiderivative of pdf: 0 at and below dist_min, 1 at and above dist_max,
\* in bin i the mass of the bins before i plus the normalized weight of bin i
\* times (x - left edge); the pieces of two neighbouring bins agree at their
\* common edge, the first piece is 0 at dist_min and the last is 1 at
\* dist_max; the slope of a piece is what pdf returns in the bin.
C14_CdfIsAntiderivative ==
    /\ call.op = "cdf" =>
          /\ call.out[1] = Antiderivative(built[1], call.x[1])
          /\ LET f == binned.linear_functions
                 n == binned.n_bins
             IN  /\ Len(f) = n + 2
                 /\ \A i \in 1 .. n - 1 :
                       Apply(f[i + 1], binned.bins[i + 1])
                           = Apply(f[i + 2], binned.bins[i + 1])
                 /\ Apply(f[2], binned.bins[1]) = Zero
                 /\ Apply(f[n + 1], binned.bins[n + 1]) = One
                 /\ \A i \in 1 .. n :
                       f[i + 1].slope = NormalizedWeight(built[1], i)
    /\ call.op = "pdf" =>
          \A i \in 1 .. binned.n_bins :
              (FLe(binned.bins[i], call.x[1]) /\ FLt(call.x[1], binned.bins[i + 1]))
                  => call.out[1] = NormalizedWeight(built[1], i)

\* cdf was evaluated strictly inside the second of two bins of different
\* positive weights
C14_Witness ==
    /\ call.op = "cdf"
    /\ binned.n_bins = 2
    /\ FGt(binned.weights_with_boundaries[2], Zero)
    /\ FGt(binned.weights_with_boundaries[3], binned.weights_with_boundaries[2])
    /\ FGt(call.x[1], binned.bins[2]) /\ FLt(call.x[1], binned.bins[3])
    /\ FGt(call.out[1], Zero) /\ FLt(call.out[1], One)

---------------------------------------------------------------------------
(* Evaluation of the cdf of one PowerLawGaussian at one point *)

\* the mixture weights of the model
Lambdas == {Fin(1, 4), Fin(1, 2), Fin(3, 4)}

InitMix ==
    /\ \E minpl \in 1 .. MaxX, maxpl \in 1 .. MaxX, alpha \in Alphas,
          lambdag \in Lambdas, meang \in 1 .. 2,
          ming \in 0 .. MaxX, maxg \in 0 .. MaxX :
          /\ minpl < maxpl /\ ming < maxg
          /\ heap = <<PowerLawGaussian(I(minpl), I(maxpl), alpha, lambdag,
                                       I(meang), One, I(ming), I(maxg))>>
    /\ \E v \in HalfX : call = [op |-> "none", x |-> <<v>>, out |-> <<>>]
    /\ sfac = NoSfac
    /\ thr = <<>>
    /\ built = heap

NextMix == CallLogCdf \/ CallCdf

SpecMix == InitMix /\ [][NextMix]_vars

\* C15: cdf of a PowerLawGaussian at its maxval = max(maxpl, maxg) is 1 (and
\* log_cdf is 0), for every mixture weight and whichever of the two
\* components ends first.
C15_MixtureCdfAtMaxIsOne ==
    /\ (call.op = "cdf" /\ call.x[1] = dist.maxval) => call.out[1] = One
    /\ (call.op = "log_cdf" /\ call.x[1] = dist.maxval) => call.out[1] = LZero

\* cdf was evaluated at the maxval of a mixture whose power law ends below
\* its Gaussian
C15_Witness ==
    /\ call.op = "cdf"
    /\ call.x[1] = dist.maxval
    /\ FLt(dist.maxpl, dist.maxg)
    /\ call.out[1] = One

---------------------------------------------------------------------------
(* Evaluation of one BrokenPowerLaw at one point *)

\* the fractions of the support at which the power law breaks
Breaks == {Fin(1, 4), Fin(1, 2), Fin(3, 4)}

InitBroken ==
    /\ \E minpl \in 1 .. MaxX, maxpl \in 1 .. MaxX,
          alpha_1 \in Alphas, alpha_2 \in Alphas, b \in Breaks :
          /\ minpl < maxpl
          /\ heap = <<BrokenPowerLaw(I(minpl), I(maxpl), alpha_1, alpha_2, b)>>
    /\ \E v \in HalfX \cup {heap[1].break_point} :
          call = [op |-> "none", x |-> <<v>>, out |-> <<>>]
    /\ sfac = NoSfac
    /\ thr = <<>>
    /\ built = heap

NextBroken == CallLogPdf \/ CallPdf \/ CallCdf

SpecBroken == InitBroken /\ [][NextBroken]_vars

\* the first piece and the scaled second piece of the density at v
FirstPiece(self, v) ==
    FDiv(Exp(PowerLaw_log_pdf(self.PL1, <<v>>)[1]), self.norm_fact)
SecondPiece(self, v) ==
    FDiv(FMul(Exp(PowerLaw_log_pdf(self.PL2, <<v>>)[1]),
              FDiv(Exp(PowerLaw_log_pdf(self.PL1, <<self.break_point>>)[1]),
                   Exp(PowerLaw_log_pdf(self.PL2, <<self.break_point>>)[1]))),
         self.norm_fact)

\* C16: pdf at the break point is PL1.pdf(break_point) / norm_fact, the
\* common value of the first piece and of the scaled second piece there: the
\* two pieces are not both added.
C16_DensityAtTheJoin ==
    (call.op = "pdf" /\ call.x[1] = dist.break_point) =>
        /\ FirstPiece(dist, dist.break_point) = SecondPiece(dist, dist.break_point)
        /\ call.out[1] = FirstPiece(dist, dist.break_point)

\* off the break point pdf is the first piece below it and the scaled
\* second piece above it, and the two pieces have the same value at the
\* break point
C16_OnePieceOffTheJoin ==
    /\ FirstPiece(dist, dist.break_point) = SecondPiece(dist, dist.break_point)
    /\ call.op = "pdf" =>
          /\ (FLe(dist.minval, call.x[1]) /\ FLt(call.x[1], dist.break_point))
                => call.out[1] = FirstPiece(dist, call.x[1])
          /\ (FLt(dist.break_point, call.x[1]) /\ FLe(call.x[1], dist.maxval))
                => call.out[1] = SecondPiece(dist, call.x[1])

\* at the break point pdf is the sum of the two pieces
C16_BothPiecesAtTheJoin ==
    (call.op = "pdf" /\ call.x[1] = dist.break_point) =>
        call.out[1] = FMul(I(2), FirstPiece(dist, dist.break_point))

---------------------------------------------------------------------------
(* Construction of a SplineWrapper from a list of the caller. Lists and    *)
(* arrays are objects of the heap: [kind, val].                            *)

\* np.array(slope_list_in): a new array with the values of the list
np_array(h, id) ==
    [heap |-> Append(h, [kind |-> "ndarray", val |-> h[id].val]),
     id |-> Len(h) + 1]

\* mutant of add_offset: the offset is added to the array itself
add_offset_in_place(h, id) ==
    [heap |-> [h EXCEPT ![id].val =
                  [i \in DOMAIN @ |-> FAdd(@[i], SPLINE_OFFSET_SLOPE)]],
     id |-> id]

\* dy_dx = slope_list + self.SPLINE_OFFSET_SLOPE: a new array
add_offset(h, id) ==
    [heap |-> Append(h, [kind |-> "ndarray",
                         val |-> [i \in DOMAIN h[id].val |->
                                     FAdd(h[id].val[i], SPLINE_OFFSET_SLOPE)]]),
     id |-> Len(h) + 1]

\* dy_dx /= c: the array itself is divided
divide_in_place(h, id, c) ==
    [h EXCEPT ![id].val = [i \in DOMAIN @ |-> FDiv(@[i], c)]]

\* CubicHermiteSpline raises ValueError unless the y-points and the tangents
\* are all finite
spline_accepts(sp) ==
    \A i \in DOMAIN sp.y : IsFin(sp.y[i]) /\ IsFin(sp.dydx[i])

\* SplineWrapper(slope_list_in, x_range) for the list slope_list_in of the
\* heap h: the heap with self.slope_list, dy_dx and, unless the spline was
\* refused, the new object appended
SplineWrapper_init(h, slope_list_in, x_range) ==
    LET a == np_array(h, slope_list_in)
        d == add_offset(a.heap, a.id)
        n_bins == Len(h[slope_list_in].val)
        h3 == divide_in_place(d.heap, d.id,
                              FDiv(FSum(d.heap[d.id].val), I(n_bins)))
        self == SplineWrapper(h[slope_list_in].val, x_range)
    IN  IF spline_accepts(self.spline)
        THEN [heap |-> Append(h3, [self EXCEPT !.slope_list = a.id]),
              status |-> "constructed", dy_dx |-> d.id]
        ELSE [heap |-> h3, status |-> "ValueError", dy_dx |-> d.id]

\* the slope parameters of the model
SlopeVals == {I(-1), Fin(-1, 2), Zero, One}

InitSpline ==
    /\ \E n \in 2 .. MaxKnots : \E sl \in [1 .. n -> SlopeVals] :
          heap = <<[kind |-> "list", val |-> sl]>>
    /\ \E xr \in XRanges :
          call = [op |-> "none", x_range |-> xr, status |-> "none", dy_dx |-> 0]
    /\ sfac = NoSfac
    /\ thr = <<>>
    /\ built = heap

ConstructSpline ==
    /\ call.op = "none"
    /\ LET r == SplineWrapper_init(heap, 1, call.x_range)
       IN  /\ heap' = r.heap
           /\ call' = [call EXCEPT !.op = "SplineWrapper",
                                   !.status = r.status, !.dy_dx = r.dy_dx]
    /\ UNCHANGED <<sfac, thr, built>>

NextSpline == ConstructSpline

SpecSpline == InitSpline /\ [][NextSpline]_vars

\* the SplineWrapper, once constructed, is the last object of the heap
wrapper == heap[Len(heap)]
Constructed == call.op = "SplineWrapper" /\ call.status = "constructed"

\* the y-points increase strictly and the tangents are positive
StrictlyIncreasing(sp) ==
    /\ \A i \in 1 .. Len(sp.y) - 1 : FLt(sp.y[i], sp.y[i + 1])
    /\ \A i \in 1 .. Len(sp.dydx) : FGt(sp.dydx[i], Zero)

\* C17: the spline of every SplineWrapper that was constructed has strictly
\* increasing y-points and positive tangents.
C17_SplineIncreasing == Constructed => StrictlyIncreasing(wrapper.spline)

\* the same holds for the slope lists whose entries are all above -1/2 (the
\* tangents slope_i + 1/2 are then positive before the rescaling)
C17_IncreasingAboveMinusHalf ==
    (Constructed /\ \A i \in DOMAIN built[1].val : FGt(built[1].val[i], Fin(-1, 2)))
        => StrictlyIncreasing(wrapper.spline)

AllZero == \A i \in DOMAIN built[1].val : built[1].val[i] = Zero

\* every tangent is 1, y_points = x_points + shift, and the range of the
\* spline is [-x_range + shift, x_range + shift]
IdentityShiftedBy(self, shift) ==
    /\ \A i \in 1 .. self.n_bins :
          /\ self.spline.dydx[i] = One
          /\ self.spline.y[i] = FAdd(self.spline.x[i], shift)
    /\ self.y_range_min = FAdd(self.x_range_min, shift)
    /\ self.y_range_max = FAdd(self.x_range_max, shift)

\* C18: if all n >= 2 slope parameters are 0, the spline is the identity at
\* its knots, for odd and for even n: the tangents are 1, y_points[i] =
\* x_points[i], y_range_min = -x_range and y_range_max = x_range.
C18_ZeroSlopesIdentity ==
    (Constructed /\ AllZero) => IdentityShiftedBy(wrapper, Zero)

\* C18, amended: with all slopes 0 the tangents are 1; for odd n the spline
\* is the identity at its knots; for even n the y-point mapped to zero is
\* the one left of the middle, and y_points[i] = x_points[i] + delta_x / 2.
C18_ZeroSlopesIdentityForOddN ==
    (Constructed /\ AllZero) =>
        IF wrapper.n_bins % 2 = 1
        THEN IdentityShiftedBy(wrapper, Zero)
        ELSE IdentityShiftedBy(wrapper, FMul(wrapper.delta_x, Fin(1, 2)))

\* a spline of three knots was constructed from slopes that are all 0
C18_Witness == Constructed /\ AllZero /\ wrapper.n_bins = 3

\* C19: after generate_spline_from_slope_list the tangents sum to n (their
\* mean is 1); the tangents are those of the array dy_dx; the slope list
\* passed to it (self.slope_list) and the list of the caller still hold the
\* slopes they were given.
C19_MeanSlopeIsOne ==
    Constructed =>
        /\ FSum(wrapper.spline.dydx) = I(wrapper.n_bins)
        /\ heap[call.dy_dx].val = wrapper.spline.dydx
        /\ heap[wrapper.slope_list].val = built[1].val
        /\ heap[1] = built[1]

\* a spline was constructed from slopes of which one is negative and whose
\* tangents were changed by the rescaling
C19_Witness ==
    /\ Constructed
    /\ \E i \in DOMAIN built[1].val : FLt(built[1].val[i], Zero)
    /\ \E i \in DOMAIN built[1].val :
          wrapper.spline.dydx[i] # FAdd(built[1].val[i], SPLINE_OFFSET_SLOPE)

---------------------------------------------------------------------------
(* Evaluation of a conditional_2dimpdf over two power laws *)

InitCondPowerLaw ==
    /\ \E lo1 \in 1 .. MaxX, hi1 \in 1 .. MaxX, a1 \in Alphas,
          lo2 \in 1 .. MaxX, hi2 \in 1 .. MaxX, a2 \in Alphas :
          /\ lo1 < hi1 /\ lo2 < hi2
          /\ heap = << PowerLaw(lo1, hi1, a1), PowerLaw(lo2, hi2, a2),
                       conditional_2dimpdf(1, 2) >>
    /\ \E x1 \in HalfX, x2 \in HalfX :
          call = [op |-> "none", x1 |-> <<x1>>, x2 |-> <<x2>>, out |-> <<>>]
    /\ sfac = NoSfac
    /\ thr = <<>>
    /\ built = heap

NextCondPowerLaw == CallCondLogPdf \/ CallCondPdf

SpecCondPowerLaw == InitCondPowerLaw /\ [][NextCondPowerLaw]_vars

\* C21: conditional_2dimpdf.log_pdf never returns +infinity: every element
\* of the result is finite or -infinity, also for x1 = x2 = pdf2.minval,
\* where pdf2.log_cdf(x1) is -infinity and both log-densities are finite.
C21_CondLogPdfNeverPosInf ==
    call.op = "log_pdf" =>
        \A i \in DOMAIN call.out :
            ~LIsNaN(call.out[i]) /\ call.out[i] # LPosInf

\* element i is the corner x1 = x2 = pdf2.minval, inside the support of pdf1
AtPdf2Minval(i) ==
    /\ call.x1[i] = heap[2].minval
    /\ call.x2[i] = heap[2].minval
    /\ ~Outside(heap[1], call.x1[i])

\* log_pdf of two power laws is +infinity at the corner x1 = x2 =
\* pdf2.minval, wherever it lies in the support of pdf1, and nowhere else
C21_PosInfExactlyAtPdf2Minval ==
    call.op = "log_pdf" =>
        \A i \in DOMAIN call.out :
            call.out[i] = LPosInf <=> AtPdf2Minval(i)

\* log_pdf was evaluated at the corner, where the sum is finite + finite -
\* (-infinity)
C21_AtTheCorner ==
    /\ call.op = "log_pdf"
    /\ \E i \in DOMAIN call.out :
          /\ AtPdf2Minval(i)
          /\ log_cdf(heap, heap[2], call.x1)[i] = LNegInf
          /\ log_pdf(heap, heap[1], call.x1)[i] \notin {LNegInf, LPosInf, LNaN}
          /\ log_pdf(heap, heap[2], call.x2)[i] \notin {LNegInf, LPosInf, LNaN}
====
